---- MODULE Spec2Model ----
(***************************************************************************)
(* A model of gulpfile.mjs: the task graph (gulp.series / gulp.parallel    *)
(* compositions of named tasks), the external processes the tasks spawn,   *)
(* the files the tasks read and write, the nightly manifest patch of       *)
(* compile:dynamic with getVersionNumber, and the event handlers of        *)
(* nls:bundle-download.                                                     *)
(*                                                                         *)
(* Three specifications share the module:                                  *)
(*   Spec         one run of a top-level target by the task runner         *)
(*   SpecVersion  compile:dynamic's manifest patch at two build times      *)
(*   SpecNls      the unzip stream's events in nls:bundle-download         *)
(***************************************************************************)
EXTENDS Integers, Sequences, FiniteSets, TLC

VARIABLES
  target,     \* the task name given on the command line (part of process.argv)
  nightlyFlag,\* whether process.argv holds '--nightly'
  status,     \* per node of the task tree: "idle", "running", "ok", "failed"
  sig,        \* per node: how many times its completion reached the task runner
  procs,      \* the child processes: running, or exited while their task waited
  lateFailure,\* a child ended with a failure when nothing waited for it
  watching,   \* gulp.watch is registered (the watch task's last step ran)
  reruns,     \* how many times the watcher started its recompile series
  fs,         \* contents of out/package.json, out/README.md, dist/src/bootloader.bundle.js
  vArgv, vEnv, vT1, vT2, vSrcVersion, vOut1, vOut2,   \* SpecVersion
  nEntries, nEmitted, nFinished, nEnded, nPromise, nWritten, nErrored  \* SpecNls

runVars == <<target, nightlyFlag, status, sig, procs, lateFailure, watching, reruns, fs>>
verVars == <<vArgv, vEnv, vT1, vT2, vSrcVersion, vOut1, vOut2>>
nlsVars == <<nEntries, nEmitted, nFinished, nEnded, nPromise, nWritten, nErrored>>
vars == <<runVars, verVars, nlsVars>>

(***************************************************************************)
(* Bounds of the model.                                                    *)
(***************************************************************************)
\* how many file-change events the watcher handles
MaxReruns == 2
\* the build times range over the years BaseYear .. BaseYear + YearSpan
YearSpan == 1
\* the archive of nls:bundle-download holds at most MaxEntries entries
MaxEntries == 3

(***************************************************************************)
(* Directory constants (gulpfile.mjs lines 31-35).                         *)
(***************************************************************************)
\* a path is the sequence of its segments
buildDir == <<"out">>
buildSrcDir == buildDir \o <<"src">>
distDir == <<"dist">>
distSrcDir == distDir \o <<"src">>
nodeTargetsDir == <<"targets", "node">>

(***************************************************************************)
(* The task registry: gulp.task(name, ...) for every name of the file.     *)
(* A node is a function ("fn"), a gulp.series or a gulp.parallel.          *)
(***************************************************************************)
Leaf(n) == [op |-> "fn", name |-> n, kids |-> <<>>]
Series(n, ks) == [op |-> "series", name |-> n, kids |-> ks]
Parallel(n, ks) == [op |-> "parallel", name |-> n, kids |-> ks]

compileWebpackSupporting ==
  Parallel("compile:webpack-supporting",
           <<Leaf("compile:webpack-supporting:runWebpack"),
             Leaf("compile:webpack-supporting:wasm")>>)

compile ==
  Series("compile",
         <<Leaf("compile:ts"), Leaf("compile:static"), Leaf("compile:dynamic"),
           compileWebpackSupporting>>)

packagePrepare ==
  Series("package:prepare",
         <<Leaf("clean"), Leaf("compile:ts"), Leaf("compile:static"),
           Leaf("compile:dynamic"), Leaf("package:webpack-bundle"),
           Leaf("package:bootloader-as-cdp"), Leaf("package:copy-extension-files"),
           Leaf("nls:bundle-create"), Leaf("package:createVSIX")>>)

package == Series("package", <<packagePrepare, Leaf("package:createVSIX")>>)

nlsParallel ==
  Parallel("", <<Leaf("nls:bundle-download"), Leaf("nls:bundle-create")>>)

flatSessionBundle ==
  Series("flatSessionBundle",
         <<Leaf("clean"), compile, Leaf("flatSessionBundle:webpack-bundle"),
           Leaf("package:bootloader-as-cdp"), Leaf("package:copy-extension-files"),
           nlsParallel>>)

vsDebugServerBundle ==
  Series("vsDebugServerBundle",
         <<Leaf("clean"), compile, Leaf("vsDebugServerBundle:webpack-bundle"),
           Leaf("flatSessionBundle:webpack-bundle"),
           Leaf("package:bootloader-as-cdp"), Leaf("package:copy-extension-files"),
           nlsParallel>>)

translationsExport ==
  Series("translations-export",
         <<Leaf("clean"), compile, Leaf("nls:bundle-create"),
           Leaf("translations-export:xlf")>>)

\* mutant of publish: gulp.parallel in place of gulp.series
publishParallel == Parallel("publish", <<package, Leaf("publish:vsce")>>)

publish == Series("publish", <<package, Leaf("publish:vsce")>>)

watch == Series("watch", <<Leaf("clean"), compile, Leaf("watch:start")>>)

\* the series gulp.watch runs on every change of the sources
watchRecompile ==
  Series("watch:recompile",
         <<Leaf("compile:ts"), Leaf("compile:static"), Leaf("compile:dynamic")>>)

format == Series("format", <<Leaf("format:prettier"), Leaf("format:eslint")>>)

lint == Parallel("lint", <<Leaf("lint:prettier"), Leaf("lint:eslint")>>)

Targets ==
  {"compile", "package:prepare", "package", "publish", "flatSessionBundle",
   "vsDebugServerBundle", "translations-export", "format", "lint", "watch"}

Task(n) ==
  CASE n = "compile" -> compile
    [] n = "package:prepare" -> packagePrepare
    [] n = "package" -> package
    [] n = "publish" -> publish
    [] n = "flatSessionBundle" -> flatSessionBundle
    [] n = "vsDebugServerBundle" -> vsDebugServerBundle
    [] n = "translations-export" -> translationsExport
    [] n = "format" -> format
    [] n = "lint" -> lint
    [] n = "watch" -> watch
    [] OTHER -> Leaf(n)

\* tree 1 is the target; tree 2 is the watcher's recompile series
Forest(t) == IF t = "watch" THEN <<Task(t), watchRecompile>> ELSE <<Task(t)>>

Main == <<1>>
Rerun == <<2>>

RECURSIVE NodeIn(_, _)
NodeIn(node, p) ==
  IF p = <<>> THEN node ELSE NodeIn(node.kids[Head(p)], Tail(p))

NodeAt(t, p) == NodeIn(Forest(t)[Head(p)], Tail(p))

RECURSIVE PathsIn(_, _)
PathsIn(node, prefix) ==
  {prefix} \cup
  UNION {PathsIn(node.kids[i], Append(prefix, i)) : i \in 1..Len(node.kids)}

Paths(t) == UNION {PathsIn(Forest(t)[i], <<i>>) : i \in 1..Len(Forest(t))}

Parent(p) == SubSeq(p, 1, Len(p) - 1)
Last(p) == p[Len(p)]
IsPrefix(q, p) == Len(q) <= Len(p) /\ SubSeq(p, 1, Len(q)) = q
NameAt(t, p) == NodeAt(t, p).name

(***************************************************************************)
(* Strings that are computed are sequences of one-character strings.       *)
(***************************************************************************)
Digits == <<"0", "1", "2", "3", "4", "5", "6", "7", "8", "9">>

\* String(n) for a natural number n
RECURSIVE ToStr(_)
ToStr(n) == IF n < 10 THEN <<Digits[n + 1]>> ELSE ToStr(n \div 10) \o <<Digits[(n % 10) + 1]>>

\* mutant of padStart: no padding
padStartNone(s, len, ch) == s

\* String.prototype.padStart(len, ch)
RECURSIVE padStart(_, _, _)
padStart(s, len, ch) == IF Len(s) >= len THEN s ELSE padStart(<<ch>> \o s, len, ch)

\* Array.prototype.join(sep) on an array of strings
RECURSIVE join(_, _)
join(parts, sep) ==
  IF Len(parts) = 0 THEN <<>>
  ELSE IF Len(parts) = 1 THEN parts[1]
  ELSE parts[1] \o <<sep>> \o join(Tail(parts), sep)

\* an environment variable: unset, or set to a string (possibly empty)
Unset == [set |-> FALSE, val |-> <<>>]
EnvSet(v) == [set |-> TRUE, val |-> v]
\* JavaScript truthiness of process.env.X: undefined and "" are falsy
Truthy(e) == e.set /\ e.val # <<>>

\* mutant of getVersionNumber: the override is used whenever the variable is
\* set, the empty string included
getVersionNumberIfSet(env, date) ==
  IF env.set THEN env.val
  ELSE join(<<ToStr(date.y), ToStr(date.m),
              ToStr(date.d) \o padStart(ToStr(date.h), 2, "0")>>, ".")

\* getVersionNumber: the override, or year.month.<day><hour padded to 2>
getVersionNumber(env, date) ==
  IF Truthy(env) THEN env.val
  ELSE join(<<ToStr(date.y), ToStr(date.m),
              ToStr(date.d) \o padStart(ToStr(date.h), 2, "0")>>, ".")

\* isNightly: process.argv includes '--nightly' or 'watch'
isNightlyArgv(argv) == "--nightly" \in argv \/ "watch" \in argv

\* extensionName
extensionName(nightly) == IF nightly THEN "js-debug-nightly" ELSE "js-debug"

(***************************************************************************)
(* The manifest (package.json) as far as the build touches it; tags counts *)
(* the ' (Nightly)' suffixes of displayName.                               *)
(***************************************************************************)
NoManifest ==
  [exists |-> FALSE, name |-> "", tags |-> 0, version |-> <<>>, preview |-> FALSE,
   contributes |-> FALSE]

SourceManifest(version) ==
  [exists |-> TRUE, name |-> "js-debug", tags |-> 0, version |-> version,
   preview |-> FALSE, contributes |-> FALSE]

\* deepmerge(packageJson, contributions): the generated fragment holds the
\* contribution points and no 'version' key
deepmerge(pkg, contributions) == [pkg EXCEPT !.contributes = @ \/ contributions]

\* compile:dynamic, lines 131-140: the manifest written to out/package.json
PatchManifest(pkg, nightly, env, date) ==
  LET named == [pkg EXCEPT !.name = extensionName(nightly)]
      patched == IF nightly
                 THEN [named EXCEPT !.tags = @ + 1,
                                    !.version = getVersionNumber(env, date),
                                    !.preview = TRUE]
                 ELSE named
  IN deepmerge(patched, TRUE)

(***************************************************************************)
(* Tracked file contents.                                                  *)
(***************************************************************************)
NoReadme == [exists |-> FALSE, headers |-> 0]
NoBundle == [exists |-> FALSE, bundle |-> FALSE, lines |-> 0]
EmptyFs == [pkg |-> NoManifest, readme |-> NoReadme, bootloader |-> NoBundle]

\* the version of the repository's package.json, and the build time of a run
RepoVersion == <<"1", ".", "9", "0", ".", "0">>
RunDate == [y |-> 2024, m |-> 3, d |-> 7, h |-> 9]

\* what an earlier nightly package build leaves on disk
LeftoverFs ==
  [pkg |-> [SourceManifest(RepoVersion) EXCEPT !.tags = 1, !.contributes = TRUE],
   readme |-> [exists |-> TRUE, headers |-> 1],
   bootloader |-> [exists |-> TRUE, bundle |-> TRUE, lines |-> 1]]

\* task 'clean': del(['out/**', 'dist/**', ...])
CleanFs(f) == EmptyFs

\* mutant of StaticFs: files already in out/ are not overwritten
StaticFsNoOverwrite(f) ==
  [f EXCEPT !.pkg = IF @.exists THEN @ ELSE SourceManifest(RepoVersion),
            !.readme = IF @.exists THEN @ ELSE [exists |-> TRUE, headers |-> 0]]

\* task 'compile:static': copies package.json and README.md (and more) to out/
StaticFs(f) ==
  [f EXCEPT !.pkg = SourceManifest(RepoVersion),
            !.readme = [exists |-> TRUE, headers |-> 0]]

\* fixNightlyReadme: prepends README.nightly.md to out/README.md
fixNightlyReadme(r) == [r EXCEPT !.headers = @ + 1]

DistBootloader == distSrcDir \o <<"bootloader.bundle.js">>

\* task 'package:bootloader-as-cdp': fs.appendFile creates a missing file
AppendCdp(f) ==
  [f EXCEPT !.bootloader =
     IF @.exists THEN [@ EXCEPT !.lines = @ + 1]
     ELSE [exists |-> TRUE, bundle |-> FALSE, lines |-> 1]]

\* a bundler process writing its output file
WebpackEmit(f, out) ==
  IF out = DistBootloader
  THEN [f EXCEPT !.bootloader = [exists |-> TRUE, bundle |-> TRUE, lines |-> 0]]
  ELSE f

(***************************************************************************)
(* Child processes.                                                        *)
(***************************************************************************)
Pkg(dir, stem, filename) == [dir |-> dir, stem |-> stem, filename |-> filename]

\* the entry points runWebpack adds to every call (lines 180-186)
CommonPackages ==
  <<Pkg(buildSrcDir \o <<"common", "hash">>, "hash", ""),
    Pkg(buildSrcDir \o nodeTargetsDir, "bootloader", ""),
    Pkg(buildSrcDir \o nodeTargetsDir, "watchdog", ""),
    Pkg(buildSrcDir \o <<"diagnosticTool">>, "diagnosticTool", "")>>

EntryFile(pk) == pk.dir \o <<pk.stem \o ".js">>

\* mutant of OutputFile: every bundle is named bundle.js
OutputFileSameName(pk, compileInPlace) ==
  (IF compileInPlace THEN pk.dir ELSE distSrcDir) \o
  <<IF pk.filename # "" THEN pk.filename ELSE "bundle.js">>

\* mutant of OutputFile: every bundle is written next to its entry
OutputFileInPlace(pk, compileInPlace) ==
  pk.dir \o <<IF pk.filename # "" THEN pk.filename ELSE pk.stem \o ".bundle.js">>

\* config.output (lines 194-197)
OutputFile(pk, compileInPlace) ==
  (IF compileInPlace THEN pk.dir ELSE distSrcDir) \o
  <<IF pk.filename # "" THEN pk.filename ELSE pk.stem \o ".bundle.js">>

\* the options of each call of runWebpack
WebpackOptions(name) ==
  CASE name = "compile:webpack-supporting:runWebpack" ->
         [packages |-> <<>>, compileInPlace |-> TRUE, watch |-> FALSE]
    [] name = "package:webpack-bundle" ->
         [packages |-> <<Pkg(buildSrcDir, "extension", "extension.js")>>,
          compileInPlace |-> FALSE, watch |-> FALSE]
    [] name = "flatSessionBundle:webpack-bundle" ->
         [packages |-> <<Pkg(buildSrcDir, "flatSessionLauncher", "")>>,
          compileInPlace |-> FALSE, watch |-> FALSE]
    [] name = "vsDebugServerBundle:webpack-bundle" ->
         [packages |-> <<Pkg(buildSrcDir, "vsDebugServer", "")>>,
          compileInPlace |-> FALSE, watch |-> FALSE]
    [] name = "watch:start" ->
         [packages |-> <<>>, compileInPlace |-> TRUE, watch |-> TRUE]

WebpackLeaves ==
  {"compile:webpack-supporting:runWebpack", "package:webpack-bundle",
   "flatSessionBundle:webpack-bundle", "vsDebugServerBundle:webpack-bundle"}

Proc(owner, run, kind, id, in, out, awaited) ==
  [owner |-> owner, run |-> run, kind |-> kind, id |-> id, in |-> in, out |-> out,
   st |-> "running", awaited |-> awaited]

\* runWebpack: one execa process per package, all started before any is awaited
runWebpack(opts, owner, run, awaited) ==
  LET all == opts.packages \o CommonPackages
  IN {Proc(owner, run, "execa", all[i].stem, EntryFile(all[i]),
           OutputFile(all[i], opts.compileInPlace), awaited) : i \in 1..Len(all)}

BuildScripts == {"generate-contributions", "generate-strings", "documentReadme"}

\* runBuildScript: execFile of out/src/build/<name>
runBuildScript(name, owner, run) ==
  Proc(owner, run, "execFile", name, buildSrcDir \o <<"build", name \o ".js">>, <<>>, TRUE)

SourceGlob == <<"src", "**/*.{ts,tsx}">>

\* runPrettier / runEslint: cp.fork of the tool; with fix it rewrites the sources
runFork(tool, fix, owner, run) ==
  Proc(owner, run, "fork", tool, SourceGlob, IF fix THEN SourceGlob ELSE <<>>, TRUE)

\* the processes a task function starts when it is called
Spawn(name, owner, run) ==
  CASE name \in WebpackLeaves -> runWebpack(WebpackOptions(name), owner, run, TRUE)
    [] name = "compile:dynamic" -> {runBuildScript(s, owner, run) : s \in BuildScripts}
    [] name = "format:prettier" -> {runFork("prettier", TRUE, owner, run)}
    [] name = "format:eslint" -> {runFork("eslint", TRUE, owner, run)}
    [] name = "lint:prettier" -> {runFork("prettier", FALSE, owner, run)}
    [] name = "lint:eslint" -> {runFork("eslint", FALSE, owner, run)}
    [] OTHER -> {}

\* how a child can end: exit code 0, a non-zero exit code, or a signal (which
\* execa and execFile report as an error like a non-zero code, and which
\* a forked child's 'exit' event reports as code null)
Outcomes(kind) == IF kind = "fork" THEN {"exit0", "exit1", "killed"} ELSE {"exit0", "exit1"}

\* mutant of PromiseAll: settles with the first process that exits
PromiseRace(ps) ==
  IF \E pr \in ps : pr.st \in {"exit1", "killed"} THEN "rejected"
  ELSE IF \E pr \in ps : pr.st = "exit0" THEN "fulfilled"
  ELSE "pending"

\* Promise.all over the processes of one call: rejects with the first failure,
\* fulfils when every process has exited with code 0
PromiseAll(ps) ==
  IF \E pr \in ps : pr.st \in {"exit1", "killed"} THEN "rejected"
  ELSE IF \A pr \in ps : pr.st = "exit0" THEN "fulfilled"
  ELSE "pending"

\* mutant of ForkCallback: the exit code is not passed on
ForkCallbackNoCode(outcome) == "ok"

\* child.on('exit', code => code ? callback(msg) : callback()): a child killed
\* by a signal exits with code null
ForkCallback(outcome) == IF outcome = "exit1" THEN "failed" ELSE "ok"

(***************************************************************************)
(* The files each step reads and writes, as the gulpfile names them.       *)
(***************************************************************************)
\* the JavaScript files that compile:ts emits under out/src and that later
\* steps name: the bundler entry points and the build scripts
CompiledJs ==
  {EntryFile(CommonPackages[i]) : i \in 1..Len(CommonPackages)} \cup
  {EntryFile(Pkg(buildSrcDir, stem, "")) :
     stem \in {"extension", "flatSessionLauncher", "vsDebugServer"}} \cup
  {buildSrcDir \o <<"build", n \o ".js">> : n \in BuildScripts}

NlsLocaleBundle == distDir \o <<"nls.bundle.<locale>.json">>
NlsFilter == <<"dist", "nls.*.json">>

LeafReads(name) ==
  CASE name = "compile:ts" -> {SourceGlob, <<"tsconfig.json">>}
    [] name = "compile:static" ->
         {<<"LICENSE">>, <<"package.json">>, <<"resources", "**">>, <<"README.md">>,
          <<"src", "**/*.sh">>}
    [] name = "compile:dynamic" ->
         {buildDir \o <<"package.json">>, buildDir \o <<"README.md">>,
          <<"README.nightly.md">>}
    [] name = "compile:webpack-supporting:wasm" ->
         {<<"node_modules", "@c4312/chromehash/pkg/*.wasm">>}
    [] name = "package:copy-extension-files" ->
         {buildDir \o <<"LICENSE">>, buildDir \o <<"package.json">>,
          buildDir \o <<"package.nls.json">>, buildDir \o <<"resources", "**">>,
          buildDir \o <<"README.md">>, buildSrcDir \o <<"**/*.sh">>,
          <<"node_modules", "source-map/lib/*.wasm">>,
          <<"node_modules", "@c4312/chromehash/pkg/*.wasm">>}
    [] name = "package:createVSIX" -> {distDir \o <<"**">>}
    [] name = "publish:vsce" -> {distDir \o <<"**">>}
    [] name = "nls:bundle-create" -> {SourceGlob}
    [] name = "translations-export:xlf" ->
         {buildDir \o <<"package.json">>, buildDir \o <<"nls.metadata.header.json">>,
          buildDir \o <<"nls.metadata.json">>}
    [] OTHER -> {}

LeafWrites(name, nightly) ==
  CASE name = "clean" ->
         {buildDir \o <<"**">>, distDir \o <<"**">>, <<"src", "*/package.nls.*.json">>,
          <<"packages", "**">>, <<"*.vsix">>}
    [] name = "compile:ts" -> CompiledJs
    [] name = "compile:static" ->
         {buildDir \o <<"LICENSE">>, buildDir \o <<"package.json">>,
          buildDir \o <<"resources", "**">>, buildDir \o <<"README.md">>,
          buildSrcDir \o <<"**/*.sh">>}
    [] name = "compile:dynamic" ->
         {buildDir \o <<"package.json">>, buildDir \o <<"package.nls.json">>} \cup
         (IF nightly THEN {buildDir \o <<"README.md">>} ELSE {})
    [] name = "compile:webpack-supporting:wasm" ->
         {buildSrcDir \o <<"common", "hash", "*.wasm">>}
    [] name = "package:bootloader-as-cdp" -> {DistBootloader}
    [] name = "package:copy-extension-files" ->
         {distDir \o <<"LICENSE">>, distDir \o <<"package.json">>,
          distDir \o <<"package.nls.json">>, distDir \o <<"resources", "**">>,
          distDir \o <<"README.md">>, distSrcDir \o <<"*.wasm">>,
          distSrcDir \o <<"*.sh">>}
    [] name = "package:createVSIX" ->
         {distDir \o <<extensionName(nightly) \o ".vsix">>}
    [] name = "nls:bundle-download" -> {NlsLocaleBundle}
    [] name = "nls:bundle-create" -> {NlsFilter}
    [] name = "translations-export:xlf" -> {<<"..", "vscode-translations-export">>}
    [] OTHER -> {}

ProcReads(pr) == {pr.in}
ProcWrites(pr) == IF pr.out = <<>> THEN {} ELSE {pr.out}

\* whether two file patterns can name the same file: the same pattern, a
\* directory wildcard over the other, or the filter nls.*.json over a bundle name
Overlap(a, b) ==
  \/ a = b
  \/ Last(a) = "**" /\ IsPrefix(Parent(a), b)
  \/ Last(b) = "**" /\ IsPrefix(Parent(b), a)
  \/ {a, b} = {NlsFilter, NlsLocaleBundle}

(***************************************************************************)
(* The task runner.  m is the runner's state: [status, sig, procs].        *)
(***************************************************************************)
\* what gulp.series does when child i of n finishes with res
SeriesStep(res, i, n) ==
  IF res = "failed" THEN "fail" ELSE IF i = n THEN "done" ELSE "next"

\* what gulp.parallel does when a child finishes with res; kids are the
\* statuses of all its children after that
ParallelStep(res, kids) ==
  IF res = "failed" THEN "fail"
  ELSE IF \A k \in kids : k = "ok" THEN "done" ELSE "wait"

RECURSIVE StartNode(_, _, _, _)
RECURSIVE StartAll(_, _, _, _, _)
StartNode(t, run, m, p) ==
  LET node == NodeAt(t, p)
      m1 == [m EXCEPT !.status[p] = "running"]
  IN CASE node.op = "fn" ->
            [m1 EXCEPT !.procs = @ \cup Spawn(node.name, p, run)]
       [] node.op = "series" -> StartNode(t, run, m1, Append(p, 1))
       [] node.op = "parallel" -> StartAll(t, run, m1, p, 1)

StartAll(t, run, m, p, i) ==
  IF i > Len(NodeAt(t, p).kids) THEN m
  ELSE StartAll(t, run, StartNode(t, run, m, Append(p, i)), p, i + 1)

\* node p finished with res: tell its parent, which moves on
RECURSIVE Complete(_, _, _, _, _)
Complete(t, run, m, p, res) ==
  LET m1 == [m EXCEPT !.status[p] = res, !.sig[p] = @ + 1]
  IN IF Len(p) = 1 THEN m1
     ELSE
       LET q == Parent(p)
           par == NodeAt(t, q)
           n == Len(par.kids)
       IN IF m1.status[q] # "running" THEN m1   \* the parent's callback runs once
          ELSE IF par.op = "series"
          THEN CASE SeriesStep(res, Last(p), n) = "fail" -> Complete(t, run, m1, q, "failed")
                 [] SeriesStep(res, Last(p), n) = "done" -> Complete(t, run, m1, q, "ok")
                 [] OTHER -> StartNode(t, run, m1, Append(q, Last(p) + 1))
          ELSE LET kids == {m1.status[Append(q, i)] : i \in 1..n}
               IN CASE ParallelStep(res, kids) = "fail" -> Complete(t, run, m1, q, "failed")
                    [] ParallelStep(res, kids) = "done" -> Complete(t, run, m1, q, "ok")
                    [] OTHER -> m1

M == [status |-> status, sig |-> sig, procs |-> procs]
SetM(m) == status' = m.status /\ sig' = m.sig /\ procs' = m.procs

isNightly == isNightlyArgv({target} \cup (IF nightlyFlag THEN {"--nightly"} ELSE {}))
RunOf(p) == IF Head(p) = 2 THEN reruns ELSE 0

\* the awaited processes of the task function at p in its current run
OwnProcs(ps, p, run) == {pr \in ps : pr.owner = p /\ pr.run = run /\ pr.awaited}

(***************************************************************************)
(* Specification Spec: one run of a top-level target.                      *)
(***************************************************************************)
verIdle ==
  /\ vArgv = {} /\ vEnv = Unset /\ vT1 = RunDate /\ vT2 = RunDate
  /\ vSrcVersion = RepoVersion /\ vOut1 = NoManifest /\ vOut2 = NoManifest

nlsIdle ==
  /\ nEntries = <<>> /\ nEmitted = 0 /\ nFinished = {} /\ nEnded = FALSE
  /\ nPromise = "none" /\ nWritten = {} /\ nErrored = FALSE

Init ==
  /\ target \in Targets
  /\ nightlyFlag \in BOOLEAN
  /\ status = [p \in Paths(target) |-> "idle"]
  /\ sig = [p \in Paths(target) |-> 0]
  /\ procs = {}
  /\ lateFailure = FALSE
  /\ watching = FALSE
  /\ reruns = 0
  /\ fs \in {EmptyFs, LeftoverFs}
  /\ verIdle /\ nlsIdle

\* the command line runs the target
RunTarget ==
  /\ status[Main] = "idle"
  /\ SetM(StartNode(target, 0, M, Main))
  /\ UNCHANGED <<target, nightlyFlag, lateFailure, watching, reruns, fs, verVars, nlsVars>>

\* tasks made of one stream or one promise, with no child process
SimpleLeaves ==
  {"clean", "compile:ts", "compile:static", "compile:webpack-supporting:wasm",
   "package:bootloader-as-cdp", "package:copy-extension-files", "package:createVSIX",
   "nls:bundle-download", "nls:bundle-create", "translations-export:xlf",
   "publish:vsce"}

\* what a successful simple task leaves in the tracked files
LeafEffect(name, f) ==
  CASE name = "clean" -> CleanFs(f)
    [] name = "compile:static" -> StaticFs(f)
    [] name = "package:bootloader-as-cdp" -> AppendCdp(f)
    [] OTHER -> f

FinishLeaf(p, res) ==
  /\ status[p] = "running"
  /\ NameAt(target, p) \in SimpleLeaves
  /\ SetM(Complete(target, RunOf(p), M, p, res))
  /\ fs' = IF res = "ok" THEN LeafEffect(NameAt(target, p), fs) ELSE fs
  /\ UNCHANGED <<target, nightlyFlag, lateFailure, watching, reruns, verVars, nlsVars>>

\* a child process exits; a promise or callback of its task, if still
\* waiting, sees it
ProcExit(pr, outcome) ==
  LET p == pr.owner
      exited == [pr EXCEPT !.st = outcome]
      live == pr.awaited /\ status[p] = "running" /\ pr.run = RunOf(p)
      ps == IF live THEN (procs \ {pr}) \cup {exited} ELSE procs \ {pr}
      m == [M EXCEPT !.procs = ps]
      name == NameAt(target, p)
      all == PromiseAll(OwnProcs(ps, p, pr.run))
  IN /\ pr.st = "running"
     /\ fs' = IF outcome = "exit0" /\ pr.kind = "execa" THEN WebpackEmit(fs, pr.out) ELSE fs
     /\ lateFailure' = (lateFailure \/ (~live /\ outcome # "exit0"))
     /\ IF ~live THEN SetM(m)
        ELSE IF pr.kind = "fork"
        THEN SetM(Complete(target, pr.run, m, p, ForkCallback(outcome)))
        ELSE IF all = "rejected" THEN SetM(Complete(target, pr.run, m, p, "failed"))
        ELSE IF all = "fulfilled" /\ name \in WebpackLeaves
        THEN SetM(Complete(target, pr.run, m, p, "ok"))
        ELSE SetM(m)
     /\ UNCHANGED <<target, nightlyFlag, watching, reruns, verVars, nlsVars>>

\* compile:dynamic after its three build scripts: read out/package.json,
\* patch it, fix the README in a nightly build, write the results
DynamicPatch(p, io) ==
  /\ status[p] = "running"
  /\ NameAt(target, p) = "compile:dynamic"
  /\ PromiseAll(OwnProcs(procs, p, RunOf(p))) = "fulfilled"
  /\ IF ~fs.pkg.exists \/ (isNightly /\ ~fs.readme.exists) \/ io = "readFails"
     THEN /\ fs' = fs
          /\ SetM(Complete(target, RunOf(p), M, p, "failed"))
     ELSE LET readme == IF isNightly THEN fixNightlyReadme(fs.readme) ELSE fs.readme
          IN IF io = "writeFails"
             THEN /\ fs' = [fs EXCEPT !.readme = readme]
                  /\ SetM(Complete(target, RunOf(p), M, p, "failed"))
             ELSE /\ fs' = [fs EXCEPT !.readme = readme,
                                      !.pkg = PatchManifest(fs.pkg, isNightly, vEnv, RunDate)]
                  /\ SetM(Complete(target, RunOf(p), M, p, "ok"))
  /\ UNCHANGED <<target, nightlyFlag, lateFailure, watching, reruns, verVars, nlsVars>>

\* the last step of 'watch': register the watcher, start the bundlers in
\* watch mode without waiting for them, and call done()
WatchStart(p) ==
  /\ status[p] = "running"
  /\ NameAt(target, p) = "watch:start"
  /\ watching' = TRUE
  /\ SetM(Complete(target, 0,
                   [M EXCEPT !.procs = @ \cup runWebpack(WebpackOptions("watch:start"), p, 0, FALSE)],
                   p, "ok"))
  /\ UNCHANGED <<target, nightlyFlag, lateFailure, reruns, fs, verVars, nlsVars>>

\* a source file changes: gulp.watch runs its series, one run at a time
FileChange ==
  /\ watching
  /\ status[Rerun] # "running"
  /\ reruns < MaxReruns
  /\ reruns' = reruns + 1
  /\ LET m == [status |-> [p \in DOMAIN status |-> IF Head(p) = 2 THEN "idle" ELSE status[p]],
               sig |-> [p \in DOMAIN sig |-> IF Head(p) = 2 THEN 0 ELSE sig[p]],
               procs |-> {pr \in procs : Head(pr.owner) # 2 \/ pr.st = "running"}]
     IN SetM(StartNode(target, reruns + 1, m, Rerun))
  /\ UNCHANGED <<target, nightlyFlag, lateFailure, watching, fs, verVars, nlsVars>>

Next ==
  \/ RunTarget
  \/ \E p \in DOMAIN status, res \in {"ok", "failed"} : FinishLeaf(p, res)
  \/ \E pr \in procs : \E outcome \in Outcomes(pr.kind) : ProcExit(pr, outcome)
  \/ \E p \in DOMAIN status, io \in {"ok", "readFails", "writeFails"} : DynamicPatch(p, io)
  \/ \E p \in DOMAIN status : WatchStart(p)
  \/ FileChange

Spec == Init /\ [][Next]_vars

(***************************************************************************)
(* Properties of a run (specification Spec).                               *)
(***************************************************************************)
Finished(st) == st \in {"ok", "failed"}
SeriesNodes == {q \in DOMAIN status : NodeAt(target, q).op = "series"}
ParallelNodes == {q \in DOMAIN status : NodeAt(target, q).op = "parallel"}
LeafPaths == {p \in DOMAIN status : NodeAt(target, p).op = "fn"}
MainLeaves == {p \in LeafPaths : Head(p) = 1}
Named(n) == {p \in MainLeaves : NameAt(target, p) = n}
Kids(q) == {Append(q, i) : i \in 1..Len(NodeAt(target, q).kids)}
Under(q) == {p \in LeafPaths : IsPrefix(q, p)}

\* C1: in every series, a failed step leaves every later step of that series
\* unstarted and the series failed; publish:vsce starts only after every
\* step of package has succeeded.
C1_SeriesAborts ==
  /\ \A q \in SeriesNodes : \A k \in Kids(q) :
       status[k] = "failed" =>
         /\ status[q] = "failed"
         /\ \A l \in Kids(q) : Last(l) > Last(k) => status[l] = "idle"
  /\ target = "publish" =>
       \A v \in Named("publish:vsce") :
         status[v] # "idle" => \A p \in Under(<<1, 1>>) : status[p] = "ok"

C1_Witness ==
  /\ target = "publish"
  /\ \E p \in Named("package:createVSIX") : status[p] = "failed"
  /\ \A v \in Named("publish:vsce") : status[v] = "idle"
  /\ status[Main] = "failed"

\* C2 as stated: a non-zero exit of any spawned process, or a failed step,
\* fails the run of the target (watch included), and every completion is
\* signalled exactly once.
C2_Original ==
  /\ \A pr \in procs : pr.st = "exit1" => status[Main] = "failed"
  /\ lateFailure => status[Main] = "failed"
  /\ \A p \in LeafPaths : status[p] = "failed" => status[Main] = "failed"
  /\ \A p \in DOMAIN status : sig[p] = (IF Finished(status[p]) THEN 1 ELSE 0)

\* C2 amended: the same for every process a step waits for and every step of
\* the target's own series; the bundlers that watch starts unawaited and the
\* watcher's recompile runs do not fail the (already finished) target; a
\* failure in a recompile run fails that run.
C2_FailurePropagates ==
  /\ \A pr \in procs :
       pr.st = "exit1" /\ pr.awaited /\ Head(pr.owner) = 1 => status[Main] = "failed"
  /\ \A pr \in procs :
       pr.st = "exit1" /\ pr.awaited /\ Head(pr.owner) = 2 /\ pr.run = reruns
         => status[Rerun] = "failed"
  /\ \A p \in LeafPaths : status[p] = "failed" => status[<<Head(p)>>] = "failed"
  /\ \A p \in DOMAIN status : sig[p] = (IF Finished(status[p]) THEN 1 ELSE 0)

C2_Witness ==
  /\ target = "lint"
  /\ \E pr \in procs : pr.st = "exit1" /\ pr.id = "eslint"
  /\ \E pr \in procs : pr.st = "running" /\ pr.id = "prettier"
  /\ status[Main] = "failed" /\ sig[Main] = 1

(***************************************************************************)
(* Concurrently running units: a running task function, or a running       *)
(* child process.                                                          *)
(***************************************************************************)
RunningLeaves == {p \in LeafPaths : status[p] = "running"}
RunningProcs == {pr \in procs : pr.st = "running"}

\* one unit writes a file pattern that the other reads or writes
Clash(w1, r1, w2, r2) ==
  \/ \E a \in w1, b \in w2 \cup r2 : Overlap(a, b)
  \/ \E a \in w2, b \in r1 : Overlap(a, b)

LeafLeafClash(p, q) ==
  Clash(LeafWrites(NameAt(target, p), isNightly), LeafReads(NameAt(target, p)),
        LeafWrites(NameAt(target, q), isNightly), LeafReads(NameAt(target, q)))

LeafProcClash(p, pr) ==
  Clash(LeafWrites(NameAt(target, p), isNightly), LeafReads(NameAt(target, p)),
        ProcWrites(pr), ProcReads(pr))

ProcProcClash(pr, ps) == Clash(ProcWrites(pr), ProcReads(pr), ProcWrites(ps), ProcReads(ps))

\* the process belongs to the current call of the task function at p
OwnedBy(pr, p) == pr.owner = p /\ pr.run = RunOf(p)

C3_WitnessNls ==
  \E p, q \in RunningLeaves :
    NameAt(target, p) = "nls:bundle-download" /\ NameAt(target, q) = "nls:bundle-create"

\* a build script of a failed recompile run still running in the next run
C3_WitnessOrphan ==
  \E p \in RunningLeaves : \E pr \in RunningProcs :
    ~OwnedBy(pr, p) /\ LeafProcClash(p, pr) /\ pr.awaited

(***************************************************************************)
(* Fan-out and fan-in.                                                     *)
(***************************************************************************)
\* the task functions that wait for the processes they spawn
AwaitingLeaves ==
  {p \in LeafPaths : NameAt(target, p) \in WebpackLeaves \cup {"compile:dynamic"}}

\* nothing started by node k is still running
Quiet(k) ==
  /\ \A p \in Under(k) : status[p] # "running"
  /\ \A pr \in procs : IsPrefix(k, pr.owner) /\ pr.run = RunOf(k) => pr.st # "running"

\* the next step of a series never starts while the step before it has a
\* branch or a process still running
SeriesWaits ==
  \A q \in SeriesNodes : \A k, l \in Kids(q) :
    Last(l) = Last(k) + 1 /\ status[l] # "idle" => Quiet(k)

\* C4 as stated: a fan-out that has completed, successfully or not, has no
\* branch still running.
C4_Original ==
  /\ \A q \in ParallelNodes : Finished(status[q]) => \A k \in Kids(q) : Finished(status[k])
  /\ \A p \in AwaitingLeaves :
       Finished(status[p]) => \A pr \in OwnProcs(procs, p, RunOf(p)) : pr.st # "running"
  /\ SeriesWaits

\* C4 amended: a fan-out that has completed successfully has every branch
\* finished successfully (a failed one may have branches still running), and
\* the next step of a series never starts while a branch or process of
\* the step before it is running.
C4_FanIn ==
  /\ \A q \in ParallelNodes : status[q] = "ok" => \A k \in Kids(q) : status[k] = "ok"
  /\ \A p \in AwaitingLeaves :
       status[p] = "ok" => \A pr \in OwnProcs(procs, p, RunOf(p)) : pr.st = "exit0"
  /\ SeriesWaits

C4_Witness ==
  /\ target = "flatSessionBundle"
  /\ status[<<1, 2, 4>>] = "ok"
  /\ status[<<1, 3>>] = "ok"
  /\ Cardinality(OwnProcs(procs, <<1, 3>>, 0)) = 5
  /\ status[<<1, 4>>] = "running"

(***************************************************************************)
(* The nightly marks.                                                      *)
(***************************************************************************)
DynamicLeaves == {p \in LeafPaths : NameAt(target, p) = "compile:dynamic"}

\* the latest series holding compile:dynamic has succeeded
LastCompileOk ==
  IF reruns > 0 THEN status[Rerun] = "ok"
  ELSE DynamicLeaves # {} /\ \A p \in DynamicLeaves : status[p] = "ok"

\* C8: in a nightly build the ' (Nightly)' suffix and the nightly README
\* header are never present twice; compile:dynamic always starts from files
\* that compile:static has copied afresh; after the latest compile series
\* has succeeded each mark is present exactly once.
C8_NightlyOnce ==
  isNightly =>
    /\ fs.pkg.tags <= 1 /\ fs.readme.headers <= 1
    /\ \A p \in DynamicLeaves :
         status[p] = "running" =>
           /\ fs.pkg.exists /\ fs.pkg.tags = 0
           /\ fs.readme.exists /\ fs.readme.headers = 0
    /\ LastCompileOk => fs.pkg.tags = 1 /\ fs.readme.headers = 1

C8_Witness ==
  /\ target = "watch" /\ reruns = 2 /\ status[Rerun] = "ok"
  /\ fs.pkg.tags = 1 /\ fs.readme.headers = 1

(***************************************************************************)
(* The bootloader bundle.                                                  *)
(***************************************************************************)
BootloaderTargets == {"package:prepare", "flatSessionBundle", "vsDebugServerBundle"}

\* C9: after a successful run of package:prepare, flatSessionBundle or
\* vsDebugServerBundle, dist/src/bootloader.bundle.js is the bundler's output
\* plus exactly one sourceURL line; package:bootloader-as-cdp has run once,
\* and it starts only after clean and after every bundler process that
\* writes that file has exited.
C9_BootloaderOnce ==
  target \in BootloaderTargets =>
    /\ Cardinality(Named("package:bootloader-as-cdp")) = 1
    /\ \A c \in Named("package:bootloader-as-cdp") :
         status[c] # "idle" =>
           /\ \A k \in Named("clean") : status[k] = "ok"
           /\ \E pr \in procs : pr.out = DistBootloader
           /\ \A pr \in procs : pr.out = DistBootloader => pr.st = "exit0"
    /\ status[Main] = "ok" =>
         fs.bootloader = [exists |-> TRUE, bundle |-> TRUE, lines |-> 1]

C9_Witness ==
  /\ target = "vsDebugServerBundle"
  /\ status[Main] = "ok"
  /\ fs.bootloader.lines = 1

(***************************************************************************)
(* How often a step runs.                                                  *)
(***************************************************************************)
Started(n) == {p \in Named(n) : status[p] # "idle"}
StepNames == {NameAt(target, p) : p \in MainLeaves}
OnceTargets ==
  {"package", "publish", "flatSessionBundle", "vsDebugServerBundle",
   "translations-export", "compile"}

\* C10: in a successful run of a top-level target every named step has
\* executed at most once, and package:createVSIX exactly once in package and
\* publish, after package:copy-extension-files and nls:bundle-create.
C10_StepsOnce ==
  target \in OnceTargets /\ status[Main] = "ok" =>
    /\ \A n \in StepNames : Cardinality(Started(n)) <= 1
    /\ target \in {"package", "publish"} =>
         /\ Cardinality(Started("package:createVSIX")) = 1
         /\ \A n \in {"package:copy-extension-files", "nls:bundle-create"} :
              \A p \in Named(n) : status[p] = "ok"

(***************************************************************************)
(* Specification SpecVersion: compile:dynamic's manifest patch, run at two *)
(* build times with the same command line and environment.                 *)
(***************************************************************************)
BaseYear == 2024
Years == BaseYear..(BaseYear + YearSpan)
Months == {1, 11}
Days == {1, 11, 31}
Hours == {0, 1, 11, 23}
\* the calendar fields of the build time in America/Los_Angeles
Dates == [y : Years, m : Months, d : Days, h : Hours]
Overrides == {Unset, EnvSet(<<>>), EnvSet(<<"9", ".", "9", ".", "9">>)}
ArgvChoices == {{"compile"}, {"compile", "--nightly"}, {"watch"}}

runIdle ==
  /\ target = "compile" /\ nightlyFlag = FALSE /\ status = <<>> /\ sig = <<>>
  /\ procs = {} /\ lateFailure = FALSE /\ watching = FALSE /\ reruns = 0
  /\ fs = EmptyFs

InitVersion ==
  /\ vArgv \in ArgvChoices
  /\ vEnv \in Overrides
  /\ vT1 \in Dates
  /\ vT2 \in Dates
  /\ vSrcVersion = RepoVersion
  /\ vOut1 = NoManifest
  /\ vOut2 = NoManifest
  /\ runIdle /\ nlsIdle

\* compile:dynamic on a freshly copied manifest
CompileDynamicAt(date) ==
  PatchManifest(SourceManifest(vSrcVersion), isNightlyArgv(vArgv), vEnv, date)

BuildFirst ==
  /\ ~vOut1.exists
  /\ vOut1' = CompileDynamicAt(vT1)
  /\ UNCHANGED <<vArgv, vEnv, vT1, vT2, vSrcVersion, vOut2, runVars, nlsVars>>

BuildSecond ==
  /\ ~vOut2.exists
  /\ vOut2' = CompileDynamicAt(vT2)
  /\ UNCHANGED <<vArgv, vEnv, vT1, vT2, vSrcVersion, vOut1, runVars, nlsVars>>

NextVersion == BuildFirst \/ BuildSecond

SpecVersion == InitVersion /\ [][NextVersion]_vars

\* reading a version string back: its dot-separated components as numbers
DigitValue(c) == CHOOSE k \in 0..9 : Digits[k + 1] = c
IsDigit(c) == \E k \in 0..9 : Digits[k + 1] = c

RECURSIVE ParseNat(_)
ParseNat(s) ==
  IF Len(s) = 0 THEN 0
  ELSE 10 * ParseNat(SubSeq(s, 1, Len(s) - 1)) + DigitValue(s[Len(s)])

RECURSIVE SplitDots(_)
SplitDots(s) ==
  IF \A i \in 1..Len(s) : s[i] # "." THEN <<s>>
  ELSE LET i == CHOOSE j \in 1..Len(s) : s[j] = "." /\ \A k \in 1..(j - 1) : s[k] # "."
       IN <<SubSeq(s, 1, i - 1)>> \o SplitDots(SubSeq(s, i + 1, Len(s)))

WellFormed(v) ==
  /\ Len(SplitDots(v)) = 3
  /\ \A i \in 1..3 : Len(SplitDots(v)[i]) > 0 /\ \A j \in 1..Len(SplitDots(v)[i]) : IsDigit(SplitDots(v)[i][j])

Components(v) == [i \in 1..3 |-> ParseNat(SplitDots(v)[i])]

LexLess(a, b) ==
  \/ a[1] < b[1]
  \/ a[1] = b[1] /\ a[2] < b[2]
  \/ a[1] = b[1] /\ a[2] = b[2] /\ a[3] < b[3]

Earlier(t, u) == LexLess(<<t.y, t.m, t.d * 100 + t.h>>, <<u.y, u.m, u.d * 100 + u.h>>)

NightlyBuild == "--nightly" \in vArgv \/ "watch" \in vArgv
OverrideGiven == vEnv.set /\ Len(vEnv.val) > 0

\* the third component is the day of the month followed by the two-digit hour
DayHour(v, t) ==
  LET third == SplitDots(v)[3]
      n == Len(third)
  IN /\ n >= 3
     /\ ParseNat(SubSeq(third, n - 1, n)) = t.h
     /\ SubSeq(third, 1, n - 2) = ToStr(t.d)

\* C5: the version written by compile:dynamic is, in a nightly build, the
\* override when JS_DEBUG_VERSION is a non-empty string and otherwise the
\* string derived from the build time; in any other build it is the version
\* of the source manifest, whatever JS_DEBUG_VERSION holds.
C5_VersionWritten ==
  vOut1.exists =>
    IF NightlyBuild
    THEN IF OverrideGiven THEN vOut1.version = vEnv.val
         ELSE /\ WellFormed(vOut1.version)
              /\ Components(vOut1.version) = <<vT1.y, vT1.m, vT1.d * 100 + vT1.h>>
    ELSE vOut1.version = vSrcVersion

C5_Witness ==
  /\ vOut1.exists /\ vOut2.exists
  /\ vArgv = {"watch"} /\ vEnv = EnvSet(<<>>)
  /\ vOut1.version # vSrcVersion

\* C7: with no override, the version is year.month.<day><hour as two
\* digits>; different build times (year, month, day, hour) give different
\* strings, and an earlier build time gives a version whose three components,
\* read as numbers, come first in lexicographic order.
C7_VersionOrder ==
  NightlyBuild /\ ~OverrideGiven /\ vOut1.exists /\ vOut2.exists =>
    /\ WellFormed(vOut1.version)
    /\ Components(vOut1.version)[1] = vT1.y
    /\ Components(vOut1.version)[2] = vT1.m
    /\ DayHour(vOut1.version, vT1)
    /\ vT1 # vT2 => vOut1.version # vOut2.version
    /\ Earlier(vT1, vT2) => LexLess(Components(vOut1.version), Components(vOut2.version))

C7_Witness ==
  /\ vOut1.exists /\ vOut2.exists /\ NightlyBuild /\ ~OverrideGiven
  /\ vT1.d = 11 /\ vT1.h = 1 /\ vT2.d = 1 /\ vT2.h = 11
  /\ vT1.y = vT2.y /\ vT1.m = vT2.m

(***************************************************************************)
(* Specification SpecNls: the promise of nls:bundle-download and the       *)
(* events of the unzip stream piped into it.                               *)
(***************************************************************************)
\* an archive entry: its path does not match the language-pack pattern, or
\* it matches and holds valid JSON, or it matches and does not parse
EntryKinds == {"other", "valid", "invalid"}
Archives == UNION {[1..n -> EntryKinds] : n \in 0..MaxEntries}
Matching == {i \in 1..Len(nEntries) : nEntries[i] # "other"}

\* resolve / reject of a promise: only the first call settles it
Settle(promise, how) == IF promise = "pending" THEN how ELSE promise

InitNls ==
  /\ nEntries \in Archives
  /\ nEmitted = 0
  /\ nFinished = {}
  /\ nEnded = FALSE
  /\ nErrored = FALSE
  /\ nPromise = "pending"
  /\ nWritten = {}
  /\ runIdle /\ verIdle

\* 'entry': a non-matching entry is drained, a matching one is piped into a
\* buffer whose 'finish' comes later
OnEntry ==
  /\ ~nEnded /\ ~nErrored
  /\ nEmitted < Len(nEntries)
  /\ nEmitted' = nEmitted + 1
  /\ UNCHANGED <<nEntries, nFinished, nEnded, nErrored, nPromise, nWritten, runVars, verVars>>

\* 'finish' of the buffer of entry i: parse and write, or reject
OnFinish(i, writeThrows) ==
  /\ i \in Matching /\ i <= nEmitted /\ i \notin nFinished
  /\ nFinished' = nFinished \cup {i}
  /\ IF nEntries[i] = "valid" /\ ~writeThrows
     THEN nWritten' = nWritten \cup {i} /\ nPromise' = nPromise
     ELSE nWritten' = nWritten /\ nPromise' = Settle(nPromise, "rejected")
  /\ UNCHANGED <<nEntries, nEmitted, nEnded, nErrored, runVars, verVars>>

\* 'end' of the unzip stream: resolve
OnEnd ==
  /\ ~nEnded /\ ~nErrored
  /\ nEmitted = Len(nEntries)
  /\ nEnded' = TRUE
  /\ nPromise' = Settle(nPromise, "resolved")
  /\ UNCHANGED <<nEntries, nEmitted, nFinished, nErrored, nWritten, runVars, verVars>>

\* 'error' of the unzip stream: reject
OnError ==
  /\ ~nEnded /\ ~nErrored
  /\ nErrored' = TRUE
  /\ nPromise' = Settle(nPromise, "rejected")
  /\ UNCHANGED <<nEntries, nEmitted, nFinished, nEnded, nWritten, runVars, verVars>>

NextNls ==
  \/ OnEntry
  \/ \E i \in 1..Len(nEntries), writeThrows \in BOOLEAN : OnFinish(i, writeThrows)
  \/ OnEnd
  \/ OnError

SpecNls == InitNls /\ [][NextNls]_vars

\* C6: the task succeeds only if every matching entry has been parsed and
\* its bundle written by then, and it fails if a matching entry does not
\* parse, however the 'finish' events fall relative to 'end'.
C6_DownloadComplete ==
  /\ nPromise = "resolved" =>
       \A i \in Matching : nEntries[i] = "valid" /\ i \in nWritten
  /\ (\E i \in nFinished : nEntries[i] = "invalid") => nPromise = "rejected"
====
